---- MODULE Spec2Model ----
(***************************************************************************)
(* Model of package model (types/model/name.go): the Name parser,          *)
(* validator and formatter, and the Digest codec.                          *)
(*                                                                         *)
(* A Go string is modelled as the sequence of its bytes, each byte written *)
(* as a one-character string; Ord gives the byte's value.                  *)
(***************************************************************************)
EXTENDS Integers, Sequences, FiniteSets, TLC

VARIABLES pc, s, partKind, n, o, name, str, valid, short, dig, panicked

vars == <<pc, s, partKind, n, o, name, str, valid, short, dig, panicked>>

(***************************************************************************)
(* Bytes and strings                                                       *)
(***************************************************************************)

\* The bytes the model uses, with their values: the ASCII digits (48..57),
\* upper-case letters (65..90), lower-case letters (97..122) and punctuation.
Digits == << "0", "1", "2", "3", "4", "5", "6", "7", "8", "9" >>

Upper == << "A", "B", "C", "D", "E", "F", "G", "H", "I", "J", "K", "L", "M",
            "N", "O", "P", "Q", "R", "S", "T", "U", "V", "W", "X", "Y", "Z" >>

Lower == << "a", "b", "c", "d", "e", "f", "g", "h", "i", "j", "k", "l", "m",
            "n", "o", "p", "q", "r", "s", "t", "u", "v", "w", "x", "y", "z" >>

Punct == [ c \in {"!", "-", ".", "/", ":", "@", "^", "_"} |->
             CASE c = "!" -> 33 [] c = "-" -> 45 [] c = "." -> 46 [] c = "/" -> 47
               [] c = ":" -> 58 [] c = "@" -> 64 [] c = "^" -> 94 [] c = "_" -> 95 ]

IndexOf(t, c) == CHOOSE i \in DOMAIN t : t[i] = c

Bytes == { Digits[i] : i \in DOMAIN Digits } \cup { Upper[i] : i \in DOMAIN Upper }
         \cup { Lower[i] : i \in DOMAIN Lower } \cup DOMAIN Punct

\* The value of a byte.
Ord == [ c \in Bytes |->
           IF c \in DOMAIN Punct THEN Punct[c]
           ELSE IF \E i \in DOMAIN Digits : Digits[i] = c THEN 47 + IndexOf(Digits, c)
           ELSE IF \E i \in DOMAIN Upper : Upper[i] = c THEN 64 + IndexOf(Upper, c)
           ELSE 96 + IndexOf(Lower, c) ]

\* strings.LastIndex for a one-byte separator: the 0-based index of the last
\* occurrence of sep in t, or -1.
LastIndex(t, sep) ==
    LET hits == { i \in 1..Len(t) : t[i] = sep }
    IN  IF hits = {} THEN -1
        ELSE (CHOOSE i \in hits : \A j \in hits : j <= i) - 1

\* cmp.Or on two strings: the first that is not the zero value.
cmpOr(a, b) == IF a # <<>> THEN a ELSE b

\* strings.ReplaceAll for one-byte old and new.
ReplaceAll(t, old, new) == [ i \in 1..Len(t) |-> IF t[i] = old THEN new ELSE t[i] ]

(***************************************************************************)
(* Name                                                                    *)
(***************************************************************************)

MissingPart == << "!", "M", "I", "S", "S", "I", "N", "G", "!" >>

ZeroName == [ Host |-> <<>>, Namespace |-> <<>>, Model |-> <<>>, Tag |-> <<>>,
              RawDigest |-> <<>> ]

DefaultName ==
    [ Host      |-> << "r", "e", "g", "i", "s", "t", "r", "y", ".",
                       "o", "l", "l", "a", "m", "a", ".", "a", "i" >>,
      Namespace |-> << "l", "i", "b", "r", "a", "r", "y" >>,
      Model     |-> <<>>,
      Tag       |-> << "l", "a", "t", "e", "s", "t" >>,
      RawDigest |-> <<>> ]

kindHost == 0
kindNamespace == 1
kindModel == 2
kindTag == 3
kindDigest == 4

MaxHostLen == 350
MaxPartLen == 80

isAlphanumeric(c) ==
    \/ Ord[c] >= Ord["A"] /\ Ord[c] <= Ord["Z"]
    \/ Ord[c] >= Ord["a"] /\ Ord[c] <= Ord["z"]
    \/ Ord[c] >= Ord["0"] /\ Ord[c] <= Ord["9"]

\* isValidLen with the upper bounds exclusive.
isValidLen_Exclusive(kind, t) ==
    CASE kind = kindHost -> Len(t) >= 1 /\ Len(t) < MaxHostLen
      [] kind = kindTag  -> Len(t) >= 1 /\ Len(t) < MaxPartLen
      [] OTHER           -> Len(t) >= 2 /\ Len(t) < MaxPartLen

isValidLen(kind, t) ==
    CASE kind = kindHost -> Len(t) >= 1 /\ Len(t) <= MaxHostLen
      [] kind = kindTag  -> Len(t) >= 1 /\ Len(t) <= MaxPartLen
      [] OTHER           -> Len(t) >= 2 /\ Len(t) <= MaxPartLen

\* The verdict of the loop body of isValidPart on byte i (0-based) of t.
isValidByte(kind, t, i) ==
    LET c == t[i + 1]
    IN  IF i = 0 THEN isAlphanumeric(c)
        ELSE CASE c \in {"_", "-"} -> TRUE
               [] c = "."          -> kind # kindNamespace
               [] c = ":"          -> kind = kindHost
               [] OTHER            -> isAlphanumeric(c)

isValidPart(kind, t) ==
    /\ isValidLen(kind, t)
    /\ \A i \in 0..(Len(t) - 1) : isValidByte(kind, t, i)

\* cutLast cutting at the first occurrence of sep (strings.Index).
cutLast_FirstIndex(t, sep) ==
    LET hits == { i \in 1..Len(t) : t[i] = sep }
        i    == IF hits = {} THEN -1
                ELSE (CHOOSE j \in hits : \A k \in hits : j <= k) - 1
    IN  IF i >= 0
        THEN [ before |-> SubSeq(t, 1, i), after |-> SubSeq(t, i + 2, Len(t)), ok |-> TRUE ]
        ELSE [ before |-> t, after |-> <<>>, ok |-> FALSE ]

cutLast(t, sep) ==
    LET i == LastIndex(t, sep)
    IN  IF i >= 0
        THEN [ before |-> SubSeq(t, 1, i), after |-> SubSeq(t, i + 2, Len(t)), ok |-> TRUE ]
        ELSE [ before |-> t, after |-> <<>>, ok |-> FALSE ]

\* cutPromised returning empty sides as they are.
cutPromised_NoSentinel(t, sep) == cutLast(t, sep)

cutPromised(t, sep) ==
    LET c == cutLast(t, sep)
    IN  IF ~c.ok THEN [ before |-> c.before, after |-> c.after, ok |-> FALSE ]
        ELSE [ before |-> cmpOr(c.before, MissingPart),
               after  |-> cmpOr(c.after, MissingPart),
               ok     |-> TRUE ]

\* ParseNameNoDefaults without the check for a promised but empty digest.
ParseNameNoDefaults_NoDigestCheck(t) ==
    LET d  == cutLast(t, "@")
        tg == cutPromised(d.before, ":")
        m  == cutPromised(tg.before, "/")
        ns == cutPromised(m.before, "/")
        n0 == [ ZeroName EXCEPT !.RawDigest = d.after, !.Tag = tg.after ]
    IN  IF ~m.ok THEN [ n0 EXCEPT !.Model = m.before ]
        ELSE IF ~ns.ok THEN [ n0 EXCEPT !.Model = m.after, !.Namespace = ns.before ]
        ELSE [ n0 EXCEPT !.Model = m.after, !.Namespace = ns.after, !.Host = ns.before ]

ParseNameNoDefaults(t) ==
    LET d  == cutLast(t, "@")
        rd == IF d.ok /\ d.after = <<>> THEN MissingPart ELSE d.after
        tg == cutPromised(d.before, ":")
        m  == cutPromised(tg.before, "/")
        ns == cutPromised(m.before, "/")
        n0 == [ ZeroName EXCEPT !.RawDigest = rd, !.Tag = tg.after ]
    IN  IF ~m.ok THEN [ n0 EXCEPT !.Model = m.before ]
        ELSE IF ~ns.ok THEN [ n0 EXCEPT !.Model = m.after, !.Namespace = ns.before ]
        ELSE [ n0 EXCEPT !.Model = m.after, !.Namespace = ns.after, !.Host = ns.before ]

\* The parts array of Name.IsValid, indexed by part kind.
parts(r) == [ i \in 0..4 |->
                CASE i = kindHost      -> r.Host
                  [] i = kindNamespace -> r.Namespace
                  [] i = kindModel     -> r.Model
                  [] i = kindTag       -> r.Tag
                  [] OTHER             -> r.RawDigest ]

\* Name.IsValid asking for a model even when a digest is set.
IsValid_ModelRequired(r) ==
    IF r.Model = <<>> THEN FALSE
    ELSE \A i \in 0..4 : ~(parts(r)[i] # <<>> /\ ~isValidPart(i, parts(r)[i]))

IsValid(r) ==
    IF r.Model = <<>> /\ r.RawDigest = <<>> THEN FALSE
    ELSE \A i \in 0..4 : ~(parts(r)[i] # <<>> /\ ~isValidPart(i, parts(r)[i]))

String(r) ==
    (IF r.Host # <<>> THEN r.Host \o << "/" >> ELSE <<>>)
    \o (IF r.Namespace # <<>> THEN r.Namespace \o << "/" >> ELSE <<>>)
    \o r.Model
    \o (IF r.Tag # <<>> THEN << ":" >> \o r.Tag ELSE <<>>)
    \o (IF r.RawDigest # <<>> THEN << "@" >> \o r.RawDigest ELSE <<>>)

\* Merge with the operands of cmp.Or swapped.
Merge_ArgumentFirst(r, q) ==
    [ r EXCEPT !.Host      = cmpOr(q.Host, r.Host),
               !.Namespace = cmpOr(q.Namespace, r.Namespace),
               !.Tag       = cmpOr(q.Tag, r.Tag) ]

Merge(r, q) ==
    [ r EXCEPT !.Host      = cmpOr(r.Host, q.Host),
               !.Namespace = cmpOr(r.Namespace, q.Namespace),
               !.Tag       = cmpOr(r.Tag, q.Tag) ]

ParseName(t) == Merge(ParseNameNoDefaults(t), DefaultName)

IsValidShort(namespace, model) ==
    isValidPart(kindNamespace, namespace) /\ isValidPart(kindModel, model)

(***************************************************************************)
(* Digest                                                                  *)
(***************************************************************************)

DigestTypeSHA256 == 1

HashSize == 32

ZeroDigest == [ Type |-> 0, Hash |-> [ i \in 1..HashSize |-> 0 ] ]

DigestTypeString(t) ==
    IF t = DigestTypeSHA256 THEN << "s", "h", "a", "2", "5", "6" >>
    ELSE << "u", "n", "k", "n", "o", "w", "n" >>

\* encoding/hex's reverseHexTable: the value of a hexadecimal digit, 255 for
\* any other byte.
fromHexChar(c) ==
    IF Ord[c] >= Ord["0"] /\ Ord[c] <= Ord["9"] THEN Ord[c] - Ord["0"]
    ELSE IF Ord[c] >= Ord["a"] /\ Ord[c] <= Ord["f"] THEN Ord[c] - Ord["a"] + 10
    ELSE IF Ord[c] >= Ord["A"] /\ Ord[c] <= Ord["F"] THEN Ord[c] - Ord["A"] + 10
    ELSE 255

\* encoding/hex.Decode(dst, src) from its loop state (i, j): two digits of src
\* give one byte of dst; the store dst[i] faults when i is outside dst.
RECURSIVE hexDecodeFrom(_, _, _, _)
hexDecodeFrom(dst, src, i, j) ==
    IF j < Len(src)
    THEN LET a == fromHexChar(src[j])
             b == fromHexChar(src[j + 1])
         IN  IF a > 15 \/ b > 15
             THEN [ n |-> i, err |-> TRUE, dst |-> dst, panic |-> FALSE ]
             ELSE IF i >= Len(dst)
             THEN [ n |-> i, err |-> FALSE, dst |-> dst, panic |-> TRUE ]
             ELSE hexDecodeFrom([ dst EXCEPT ![i + 1] = a * 16 + b ], src, i + 1, j + 2)
    ELSE [ n |-> i, err |-> (Len(src) % 2 = 1), dst |-> dst, panic |-> FALSE ]

hexDecode(dst, src) == hexDecodeFrom(dst, src, 0, 1)

\* encoding/hex.EncodeToString: two lower-case digits per byte.
hextable == << "0", "1", "2", "3", "4", "5", "6", "7", "8", "9",
               "a", "b", "c", "d", "e", "f" >>

hexEncodeToString(h) ==
    [ k \in 1..(2 * Len(h)) |->
        IF k % 2 = 1 THEN hextable[(h[(k + 1) \div 2] \div 16) + 1]
        ELSE hextable[(h[k \div 2] % 16) + 1] ]

DigestIsValid(d) ==
    IF d.Type # DigestTypeSHA256 THEN FALSE
    ELSE d.Hash # ZeroDigest.Hash

\* Digest.String joining type and hash with ':'.
DigestString_Colon(d) ==
    DigestTypeString(d.Type) \o << ":" >> \o hexEncodeToString(d.Hash)

DigestString(d) ==
    DigestTypeString(d.Type) \o << "-" >> \o hexEncodeToString(d.Hash)

\* ParseDigest: panic tells whether the call faulted instead of returning d.
ParseDigest(t) ==
    LET c1  == cutLast(t, ":")
        c2  == cutLast(t, "-")
        c   == IF c1.ok THEN c1 ELSE c2
        dec == hexDecode(ZeroDigest.Hash, c.after)
    IN  IF ~c.ok THEN [ panic |-> FALSE, d |-> ZeroDigest ]
        ELSE IF c.before # << "s", "h", "a", "2", "5", "6" >>
        THEN [ panic |-> FALSE, d |-> ZeroDigest ]
        ELSE IF dec.panic THEN [ panic |-> TRUE, d |-> ZeroDigest ]
        ELSE IF dec.err \/ dec.n # HashSize THEN [ panic |-> FALSE, d |-> ZeroDigest ]
        ELSE [ panic |-> FALSE, d |-> [ Type |-> DigestTypeSHA256, Hash |-> dec.dst ] ]

\* Name.Digest
Digest(r) == ParseDigest(r.RawDigest)

(***************************************************************************)
(* Inputs                                                                  *)
(***************************************************************************)

\* Longest string of the exhaustive inputs, and longest hash segment of the
\* digest inputs.
MaxLen == 5
MaxHashLen == 67

NameAlphabet == { "a", "-", ".", ":", "/", "@" }

\* Every string over NameAlphabet of length 0..MaxLen.
ShortStrings == UNION { [ 1..k -> NameAlphabet ] : k \in 0..MaxLen }

Rep(c, k) == [ i \in 1..k |-> c ]

validSHA256Hex == [ i \in 1..(2 * HashSize) |-> hextable[((i + 9) % 16) + 1] ]

sha256 == << "s", "h", "a", "2", "5", "6" >>

\* Field values: empty, too short for a model, plain, with '.', with ':',
\* with a leading '-', and the sentinel.
PartPool == { <<>>, << "a" >>, << "b", "b" >>, << "b", ".", "b" >>, << "b", ":", "b" >>,
              << "-", "b" >>, MissingPart }

DigestPool == PartPool \cup
    { sha256 \o << ":" >> \o validSHA256Hex,
      sha256 \o << "-" >> \o validSHA256Hex,
      sha256 \o << "-" >> \o validSHA256Hex \o << "0", "0" >> }

Names == [ Host : PartPool, Namespace : PartPool, Model : PartPool, Tag : PartPool,
           RawDigest : DigestPool ]

FuzzInputs == ShortStrings \cup { String(r) : r \in Names }

\* Merge only tells empty from non-empty.
MergeReceivers == [ Host : { <<>>, << "n" >> }, Namespace : { <<>>, << "n", "n" >> },
                    Model : { <<>>, << "n", "n" >> }, Tag : { <<>>, << "n" >> },
                    RawDigest : { <<>>, << "n", "n" >> } ]

MergeArguments == [ Host : { <<>>, << "o" >>, << "n" >> },
                    Namespace : { <<>>, << "o", "o" >>, << "n", "n" >> },
                    Model : { <<>>, << "o", "o" >>, << "n", "n" >> },
                    Tag : { <<>>, << "o" >>, << "n" >> },
                    RawDigest : { <<>>, << "o", "o" >>, << "n", "n" >> } ]

\* t with byte i (1-based) replaced by c.
Poke(t, i, c) == [ k \in 1..Len(t) |-> IF k = i THEN c ELSE t[k] ]

\* Hash segments: one byte repeated, possibly with its first or last byte
\* replaced.
HashSegments ==
    LET plain == { Rep(c, k) : c \in { "0", "a", "F" }, k \in 0..MaxHashLen }
    IN  plain \cup UNION { { Poke(h, i, c) : i \in { 1, Len(h) },
                                                c \in { "1", "x", "-", ":" } } : h \in plain }

DigestStrings ==
    { typ \o sep \o h : typ \in { sha256, << "s", "h", "a", "1", "3", "4" >>, <<>> },
                        sep \in { << ":" >>, << "-" >>, <<>> },
                        h \in HashSegments }

\* Longest string of the exhaustive part inputs.
MaxPartInputLen == 3

PartKinds == { kindHost, kindNamespace, kindModel, kindTag, kindDigest }

PartAlphabet == { "a", "z", "A", "Z", "0", "9", "_", "-", ".", ":", "^", "/", "@" }

\* Lengths around the bounds of isValidLen.
LongLengths == { MaxPartLen - 1, MaxPartLen, MaxPartLen + 1,
                 MaxHostLen - 1, MaxHostLen, MaxHostLen + 1 }

\* Parts: every string over PartAlphabet of length 0..MaxPartInputLen, and
\* long ones, a letter or digit repeated, possibly with its first, second or
\* last byte replaced.
PartInputs ==
    LET short0 == UNION { [ 1..k -> PartAlphabet ] : k \in 0..MaxPartInputLen }
        plain  == { Rep(c, k) : c \in { "a", "8", "3" }, k \in LongLengths }
    IN  short0 \cup plain
        \cup UNION { { Poke(h, i, c) : i \in { 1, 2, Len(h) },
                                       c \in { "_", "-", ".", ":", "^" } } : h \in plain }

(***************************************************************************)
(* Operations                                                              *)
(***************************************************************************)

Init ==
    /\ pc = "idle"
    /\ s = <<>>
    /\ partKind = kindHost
    /\ n = ZeroName
    /\ o = ZeroName
    /\ name = ZeroName
    /\ str = <<>>
    /\ valid = FALSE
    /\ short = FALSE
    /\ dig = ZeroDigest
    /\ panicked = FALSE

\* The body of FuzzName and TestIsValid: parse, validate, format.
FuzzName ==
    /\ pc = "idle"
    /\ \E in \in FuzzInputs :
        /\ pc' = "FuzzName"
        /\ s' = in
        /\ name' = ParseNameNoDefaults(in)
        /\ valid' = IsValid(name')
        /\ str' = String(name')
        /\ UNCHANGED <<partKind, n, o, short, dig, panicked>>

\* TestParseNameDefault: ParseName, then String.
TestParseNameDefault ==
    /\ pc = "idle"
    /\ \E in \in ShortStrings :
        /\ pc' = "TestParseNameDefault"
        /\ s' = in
        /\ name' = ParseName(in)
        /\ str' = String(name')
        /\ UNCHANGED <<partKind, n, o, valid, short, dig, panicked>>

\* A Name value r validated, formatted and parsed back.
NameRoundTrip ==
    /\ pc = "idle"
    /\ \E r \in Names :
        /\ pc' = "NameRoundTrip"
        /\ n' = r
        /\ valid' = IsValid(r)
        /\ str' = String(r)
        /\ name' = ParseNameNoDefaults(str')
        /\ UNCHANGED <<partKind, s, o, short, dig, panicked>>

\* The check of TestIsValidShort.
TestIsValidShort ==
    /\ pc = "idle"
    /\ \E namespace \in PartPool, model \in PartPool :
        /\ pc' = "TestIsValidShort"
        /\ n' = [ ZeroName EXCEPT !.Namespace = namespace, !.Model = model ]
        /\ short' = IsValidShort(namespace, model)
        /\ valid' = IsValid(n')
        /\ UNCHANGED <<partKind, s, o, name, str, dig, panicked>>

\* r.Merge(q): the receiver is a copy, the result is returned.
MergeCall ==
    /\ pc = "idle"
    /\ \E r \in MergeReceivers, q \in MergeArguments :
        /\ pc' = "Merge"
        /\ n' = r
        /\ o' = q
        /\ name' = Merge(r, q)
        /\ UNCHANGED <<partKind, s, str, valid, short, dig, panicked>>

\* The body of TestParseDigest: parse, validate, format.
TestParseDigest ==
    /\ pc = "idle"
    /\ \E in \in DigestStrings :
        /\ pc' = "TestParseDigest"
        /\ s' = in
        /\ LET p == ParseDigest(in)
           IN  /\ panicked' = p.panic
               /\ dig' = p.d
               /\ valid' = (~p.panic /\ DigestIsValid(p.d))
               /\ str' = IF p.panic THEN <<>> ELSE DigestString(p.d)
        /\ UNCHANGED <<partKind, n, o, name, short>>

\* The body of TestParseNameParts for "model@" + d: parse, validate, Digest().
TestParseNameParts ==
    /\ pc = "idle"
    /\ \E d \in DigestStrings :
        /\ pc' = "TestParseNameParts"
        /\ s' = << "m", "o", "d", "e", "l", "@" >> \o d
        /\ name' = ParseNameNoDefaults(s')
        /\ valid' = IsValid(name')
        /\ LET p == Digest(name')
           IN  /\ panicked' = p.panic
               /\ dig' = p.d
        /\ UNCHANGED <<partKind, n, o, str, short>>

\* The body of TestIsValidPart: one part checked as one kind.
TestIsValidPart ==
    /\ pc = "idle"
    /\ \E k \in PartKinds, t \in PartInputs :
        /\ pc' = "TestIsValidPart"
        /\ partKind' = k
        /\ s' = t
        /\ valid' = isValidPart(k, t)
        /\ UNCHANGED <<n, o, name, str, short, dig, panicked>>

\* The caller is done with the result.
Return ==
    /\ pc # "idle"
    /\ pc' = "idle"
    /\ s' = <<>>
    /\ partKind' = kindHost
    /\ n' = ZeroName
    /\ o' = ZeroName
    /\ name' = ZeroName
    /\ str' = <<>>
    /\ valid' = FALSE
    /\ short' = FALSE
    /\ dig' = ZeroDigest
    /\ panicked' = FALSE

Next ==
    \/ FuzzName
    \/ TestParseNameDefault
    \/ NameRoundTrip
    \/ TestIsValidShort
    \/ MergeCall
    \/ Return

Spec == Init /\ [][Next]_vars

NextDigest ==
    \/ TestParseDigest
    \/ TestParseNameParts
    \/ Return

SpecDigest == Init /\ [][NextDigest]_vars

NextPart ==
    \/ TestIsValidPart
    \/ Return

SpecPart == Init /\ [][NextPart]_vars

(***************************************************************************)
(* Properties                                                              *)
(***************************************************************************)

\* C1: whenever the Name parsed from a string s is valid, formatting it gives
\* back s byte for byte.
C1_StringRoundTrip == pc = "FuzzName" /\ valid => str = s

C1_Witness ==
    /\ pc = "FuzzName" /\ valid /\ str = s
    /\ name.Host # <<>> /\ name.Namespace # <<>> /\ name.Tag # <<>>
    /\ name.RawDigest # <<>>

\* C2: whenever a Name value is valid, parsing its String() gives the same
\* Name field for field.
C2_ValueRoundTrip == pc = "NameRoundTrip" /\ valid => name = n

\* C3: IsValidShort(namespace, model) agrees with
\* Name{Namespace: namespace, Model: model}.IsValid() on every pair.
C3_ShortEquivalent == pc = "TestIsValidShort" => short = valid

\* The requirement C6 states for one field: empty, or a valid part of kind.
FieldOk(kind, t) == t = <<>> \/ isValidPart(kind, t)

EmptySide(t) ==
    LET at == LastIndex(t, "@")
        l1 == IF at >= 0 THEN SubSeq(t, 1, at) ELSE t
        co == LastIndex(l1, ":")
        l2 == IF co >= 0 THEN SubSeq(l1, 1, co) ELSE l1
        s1 == LastIndex(l2, "/")
        l3 == IF s1 >= 0 THEN SubSeq(l2, 1, s1) ELSE l2
        s2 == LastIndex(l3, "/")
    IN  \/ at >= 0 /\ at = Len(t) - 1
        \/ co >= 0 /\ (co = 0 \/ co = Len(l1) - 1)
        \/ s1 >= 0 /\ (s1 = 0 \/ s1 = Len(l2) - 1)
        \/ s1 >= 0 /\ s2 >= 0 /\ (s2 = 0 \/ s2 = Len(l3) - 1)

HoldsMissingPart(r) == \E i \in 0..4 : parts(r)[i] = MissingPart

\* C7: the sentinel is a valid part of no kind, a Name holding it is invalid,
\* and a string with an empty side at a split point parses to an invalid
\* Name; an empty text left of '@' alone is tolerated.
C7_SentinelPropagation ==
    /\ \A k \in 0..4 : ~isValidPart(k, MissingPart)
    /\ pc = "NameRoundTrip" /\ HoldsMissingPart(n) => ~valid
    /\ pc = "FuzzName" /\ HoldsMissingPart(name) => ~valid
    /\ pc = "FuzzName" /\ EmptySide(s) => ~valid
    /\ pc = "FuzzName" /\ LastIndex(s, "@") = 0
         /\ isValidPart(kindDigest, SubSeq(s, 2, Len(s))) => valid

C7_Witness ==
    /\ pc = "FuzzName" /\ EmptySide(s) /\ ~valid
    /\ name.Namespace = MissingPart /\ name.Host # <<>>
    /\ isValidPart(kindModel, name.Model)

\* C8: Merge keeps Model and RawDigest of the receiver, and Host, Namespace
\* and Tag are the receiver's when non-empty and the argument's otherwise;
\* so ParseName of a string without separators formats to
\* "registry.ollama.ai/library/" + m + ":latest".
C8_MergeFrameAndFill ==
    /\ pc = "Merge" =>
        /\ name.Model = n.Model
        /\ name.RawDigest = n.RawDigest
        /\ name.Host = (IF n.Host # <<>> THEN n.Host ELSE o.Host)
        /\ name.Namespace = (IF n.Namespace # <<>> THEN n.Namespace ELSE o.Namespace)
        /\ name.Tag = (IF n.Tag # <<>> THEN n.Tag ELSE o.Tag)
    /\ pc = "TestParseNameDefault" /\ (\A i \in 1..Len(s) : s[i] \notin { "/", ":", "@" }) =>
        str = << "r", "e", "g", "i", "s", "t", "r", "y", ".", "o", "l", "l", "a", "m", "a",
                 ".", "a", "i", "/", "l", "i", "b", "r", "a", "r", "y", "/" >>
              \o s \o << ":", "l", "a", "t", "e", "s", "t" >>

C8_Witness ==
    /\ pc = "Merge"
    /\ n.Host = <<>> /\ o.Host # <<>> /\ name.Host = o.Host
    /\ n.Tag # <<>> /\ o.Tag # <<>> /\ o.Tag # n.Tag /\ name.Tag = n.Tag
    /\ n.Model = <<>> /\ o.Model # <<>> /\ name.Model = <<>>
    /\ n.RawDigest # <<>> /\ o.RawDigest # <<>> /\ o.RawDigest # n.RawDigest

HexDigits == { "0", "1", "2", "3", "4", "5", "6", "7", "8", "9",
               "a", "b", "c", "d", "e", "f", "A", "B", "C", "D", "E", "F" }

\* The text ParseDigest takes for the hash: what follows the last ':', or the
\* last '-' when there is no ':'.
HashSegmentOf(t) ==
    LET c == LastIndex(t, ":")
        h == LastIndex(t, "-")
        i == IF c >= 0 THEN c ELSE h
    IN  SubSeq(t, i + 2, Len(t))

Is64Hex(t) == Len(t) = 64 /\ \A i \in 1..Len(t) : t[i] \in HexDigits

\* C4: ParseDigest returns normally on every string, with the zero Digest when
\* the hash segment is not exactly 64 hexadecimal characters, and so does
\* Name.Digest() on every Name.
C4_ParseDigestTotal ==
    /\ pc \in { "TestParseDigest", "TestParseNameParts" } => ~panicked
    /\ pc = "TestParseDigest" /\ ~Is64Hex(HashSegmentOf(s)) => dig = ZeroDigest

\* C5: a raw digest that ParseDigest finds valid is a valid part of kind
\* digest, so a Name with a valid model and that RawDigest is valid.
C5_PartLooserThanCodec ==
    pc = "TestParseNameParts" /\ ~panicked /\ DigestIsValid(dig) =>
        isValidPart(kindDigest, name.RawDigest) /\ valid

\* s with the upper-case hexadecimal digits A..F in lower case.
ToLowerHex(t) ==
    [ i \in 1..Len(t) |->
        IF t[i] \in { "A", "B", "C", "D", "E", "F" } THEN Lower[IndexOf(Upper, t[i])]
        ELSE t[i] ]

\* C9 as stated: a valid digest formats to its input with ':' replaced by '-'.
C9_FormatsToInput ==
    pc = "TestParseDigest" /\ valid => str = ReplaceAll(s, ":", "-")

\* C9: a valid digest formats to its input with ':' replaced by '-' and the
\* upper-case hexadecimal digits replaced by their lower-case forms.
C9_FormatsToLowerInput ==
    pc = "TestParseDigest" /\ valid => str = ReplaceAll(ToLowerHex(s), ":", "-")

C9_Witness ==
    /\ pc = "TestParseDigest" /\ valid
    /\ \E i \in 1..Len(s) : s[i] = ":"
    /\ \E i \in 1..Len(s) : s[i] = "F"
    /\ str # s

\* "sha256", one ':' or '-', then exactly 64 hexadecimal characters.
WellFormedDigest(t) ==
    /\ Len(t) = 71
    /\ SubSeq(t, 1, 6) = << "s", "h", "a", "2", "5", "6" >>
    /\ t[7] \in { ":", "-" }
    /\ \A i \in 8..71 : t[i] \in HexDigits

\* C10: ParseDigest(s) is valid exactly when s is well formed with a hash
\* that is not all zero; an all-zero hash decodes but is invalid, and any
\* other string gives the zero Digest.
C10_DigestValidity ==
    pc = "TestParseDigest" =>
        /\ ~panicked
        /\ valid <=> (WellFormedDigest(s) /\ \E i \in 8..71 : s[i] # "0")
        /\ WellFormedDigest(s) => dig.Type = DigestTypeSHA256
        /\ ~WellFormedDigest(s) => dig = ZeroDigest

\* The ASCII letters and digits.
LettersAndDigits ==
    { Digits[i] : i \in DOMAIN Digits } \cup { Upper[i] : i \in DOMAIN Upper }
    \cup { Lower[i] : i \in DOMAIN Lower }

\* The length bounds C11 states for kind k.
LenInBounds(k, t) ==
    IF k = kindHost THEN Len(t) \in 1..350
    ELSE IF k = kindTag THEN Len(t) \in 1..80
    ELSE Len(t) \in 2..80

\* The bytes C11 allows after the first one for kind k.
LaterByteAllowed(k, c) ==
    \/ c \in LettersAndDigits \cup { "_", "-" }
    \/ c = "." /\ k # kindNamespace
    \/ c = ":" /\ k = kindHost

AllLettersAndDigits(t) == \A i \in 1..Len(t) : t[i] \in LettersAndDigits

\* C11: isValidPart(kind, s) is true exactly when the length of s is within
\* the bounds of the kind, its first byte is a letter or digit and every later
\* byte is allowed for the kind; so lengths 1 and 81 fail and 2 and 80 pass
\* for namespace and model, host passes at 350 and fails at 351, a leading
\* '_', '-' or '.' fails for every kind, and ".." is never valid.
C11_PartRule ==
    pc = "TestIsValidPart" =>
        /\ valid <=>
             /\ LenInBounds(partKind, s)
             /\ s[1] \in LettersAndDigits
             /\ \A i \in 2..Len(s) : LaterByteAllowed(partKind, s[i])
        /\ partKind \in { kindNamespace, kindModel } /\ AllLettersAndDigits(s) =>
             /\ Len(s) \in { 1, 81 } => ~valid
             /\ Len(s) \in { 2, 80 } => valid
        /\ partKind = kindHost /\ AllLettersAndDigits(s) =>
             /\ Len(s) = 350 => valid
             /\ Len(s) = 351 => ~valid
        /\ Len(s) >= 1 /\ s[1] \in { "_", "-", "." } => ~valid
        /\ s = << ".", "." >> => ~valid

C11_Witness ==
    /\ pc = "TestIsValidPart" /\ valid
    /\ partKind = kindHost /\ Len(s) = 350
    /\ s[2] = ":" /\ s[1] \in LettersAndDigits

Contains(t, c) == \E i \in 1..Len(t) : t[i] = c

\* C12: in every result of ParseNameNoDefaults a non-empty Host comes with a
\* non-empty Namespace and Model, a non-empty Namespace or Tag with a
\* non-empty Model, RawDigest holds no '@', Tag no ':', and Model and
\* Namespace no '/'.
C12_ParsedShape ==
    pc = "FuzzName" =>
        /\ name.Host # <<>> => name.Namespace # <<>> /\ name.Model # <<>>
        /\ name.Namespace # <<>> => name.Model # <<>>
        /\ name.Tag # <<>> => name.Model # <<>>
        /\ name.Model = <<>> =>
             name.Host = <<>> /\ name.Namespace = <<>> /\ name.Tag = <<>>
        /\ ~Contains(name.RawDigest, "@")
        /\ ~Contains(name.Tag, ":")
        /\ ~Contains(name.Model, "/")
        /\ ~Contains(name.Namespace, "/")

C12_Witness ==
    /\ pc = "FuzzName"
    /\ Contains(name.Host, ":")
    /\ name.Namespace # <<>> /\ name.Model # <<>> /\ name.Tag # <<>>
    /\ name.RawDigest # <<>> /\ Contains(s, "@")

====
